---- MODULE Spec2Model ----
(***************************************************************************)
(* The breadth-first crawler of src/web_crawler.go and of its earlier      *)
(* draft src/unnamed/part_000: crawlSeeds with its queue, visited set and  *)
(* page counter, the URL helpers, the fetch, the extraction and the store. *)
(* The two files are two programs (both are package main); the variable    *)
(* variant says which one a run executes.                                  *)
(***************************************************************************)
EXTENDS Integers, Sequences, FiniteSets, TLC

\* ---------------------------------------------------------------- bounds
MaxSeeds == 2        \* entries of SEED_URLS
MaxLinks == 2        \* <a href> elements of a fetched document
MaxPagesBound == 2   \* MaxPagesPerRun ranges over 1..MaxPagesBound
MaxDepthBound == 1   \* MaxDepth ranges over 0..MaxDepthBound

\* ---------------------------------------------------------------- strings
\* A string that is read as a URL is kept by its parts: surrounding white
\* space (pad), scheme, host, path and fragment. Hosts are sequences of
\* characters, because the domain policy compares them by suffix.
HostA == <<"w", ".", "a", ".", "c">>
HostB == <<"b", ".", "d">>
DomainA == <<"a", ".", "c">>
NoHost == <<>>
BadPath == "%zz"     \* an invalid escape: url.Parse fails on it, in the
                     \* path as in the fragment

Str(pad, scheme, host, path, frag) ==
    [pad |-> pad, scheme |-> scheme, host |-> host, path |-> path, frag |-> frag]

EmptyStr == Str(FALSE, "", NoHost, "", "")
BlankStr == Str(TRUE, "", NoHost, "", "")
BadStr == Str(FALSE, "", NoHost, BadPath, "")

\* strings.TrimSpace
TrimSpace(s) == [s EXCEPT !.pad = FALSE]

\* url.Parse: the URL structure of a string, or an error. It is applied to
\* trimmed strings (a seed, a trimmed href, a queue URL) and to the favicon
\* and image candidates, which carry no padding here.
NoURL == [Scheme |-> "", Host |-> NoHost, Path |-> "", Fragment |-> ""]

ParseFails(s) == s.pad \/ s.path = BadPath \/ s.frag = BadPath

Parse(s) ==
    IF ParseFails(s)
    THEN [err |-> TRUE, url |-> NoURL]
    ELSE [err |-> FALSE,
          url |-> [Scheme |-> s.scheme, Host |-> s.host, Path |-> s.path,
                   Fragment |-> s.frag]]

\* (*url.URL).String
String(u) == Str(FALSE, u.Scheme, u.Host, u.Path, u.Fragment)

\* (*url.URL).IsAbs
IsAbs(u) == u.Scheme # ""

\* (*url.URL).Hostname (no ports in the strings above)
Hostname(u) == u.Host

\* (*url.URL).ResolveReference
ResolveReference(base, ref) ==
    IF ref.Scheme # "" THEN ref
    ELSE IF ref.Host # NoHost THEN [ref EXCEPT !.Scheme = base.Scheme]
    ELSE [Scheme |-> base.Scheme,
          Host |-> base.Host,
          Path |-> IF ref.Path = "" THEN base.Path ELSE ref.Path,
          Fragment |-> IF ref.Path = "" /\ ref.Fragment = ""
                       THEN base.Fragment ELSE ref.Fragment]

\* strings.HasSuffix
HasSuffix(s, d) ==
    /\ Len(d) <= Len(s)
    /\ SubSeq(s, Len(s) - Len(d) + 1, Len(s)) = d

\* ---------------------------------------------------------------- helpers
\* mutant: the domain policy lets every host through
isAllowedDomainAny(u, allowed) == TRUE

isAllowedDomain(u, allowed) ==
    IF Len(allowed) = 0 THEN TRUE
    ELSE \E i \in 1..Len(allowed) : HasSuffix(Hostname(u), allowed[i])

\* mutant: the fragment stays
normalizeURLKeepsFragment(base, href) ==
    LET h == TrimSpace(href)
        p == Parse(h)
        r == IF IsAbs(p.url) THEN p.url ELSE ResolveReference(base, p.url)
    IN  IF h = EmptyStr THEN [err |-> TRUE, url |-> NoURL]
        ELSE IF p.err THEN [err |-> TRUE, url |-> NoURL]
        ELSE IF r.Scheme # "http" /\ r.Scheme # "https"
             THEN [err |-> TRUE, url |-> NoURL]
        ELSE [err |-> FALSE, url |-> r]

normalizeURL(base, href) ==
    LET h == TrimSpace(href)
        p == Parse(h)
        r == IF IsAbs(p.url) THEN p.url ELSE ResolveReference(base, p.url)
    IN  IF h = EmptyStr THEN [err |-> TRUE, url |-> NoURL]
        ELSE IF p.err THEN [err |-> TRUE, url |-> NoURL]
        ELSE IF r.Scheme # "http" /\ r.Scheme # "https"
             THEN [err |-> TRUE, url |-> NoURL]
        ELSE [err |-> FALSE, url |-> [r EXCEPT !.Fragment = ""]]


\* ---------------------------------------------------------------- inputs
\* SEED_URLS entries, as split on commas (before trimming)
SeedStrs ==
    { Str(FALSE, "http", HostA, "/p", ""),
      Str(TRUE, "http", HostA, "/p", "f"),
      BadStr,
      BlankStr }

\* href attribute values a document can carry
Hrefs ==
    { Str(FALSE, "http", HostA, "/p", ""),
      Str(TRUE, "", NoHost, "/p", "f"),
      Str(FALSE, "https", HostB, "/", ""),
      Str(FALSE, "mailto", NoHost, "x", "") }

\* ALLOWED_DOMAINS, split and trimmed
AllowLists == { <<>>, <<DomainA>> }

SeqsUpTo(S, n) == UNION { [1..k -> S] : k \in 0..n }

\* What a fetch can return: the <a href> values in document order, the href
\* of the last <link> whose rel contains "icon", and
\* the preview-image candidate (og:image, twitter:image or first <img> src).
Docs ==
    [ links : SeqsUpTo(Hrefs, MaxLinks),
      favicon : { Str(FALSE, "", NoHost, "/i", ""), BadStr },
      img : { EmptyStr, BadStr } ]

\* ---------------------------------------------------------------- pages
NewPage(u, favicon, img, links, t) ==
    [URL |-> u, Favicon |-> favicon, Image |-> img, Links |-> links,
     CrawlTime |-> t]

NoPage == NewPage(EmptyStr, EmptyStr, EmptyStr, <<>>, 0)

\* a record left in the store by an earlier run
OldPage == NewPage(Str(FALSE, "http", HostA, "/p", ""), EmptyStr, EmptyStr, <<>>, 0)

Stores == { {}, {OldPage} }

\* the favicon and preview-image step of extractPage (web_crawler.go): the
\* href is parsed, a relative one is resolved against the page URL, and the
\* result is printed; the print dereferences a nil URL when the parse failed
AbsPanics(h) == h # EmptyStr /\ Parse(h).err

AbsString(base, h) ==
    IF h = EmptyStr THEN EmptyStr
    ELSE LET fu == Parse(h).url
         IN  String(IF ~IsAbs(fu) THEN ResolveReference(base, fu) ELSE fu)

extractPanics(v, d) ==
    v = "web_crawler" /\ (AbsPanics(d.favicon) \/ AbsPanics(d.img))

extractPage(v, u, d) ==
    IF v = "web_crawler"
    THEN NewPage(u, AbsString(Parse(u).url, d.favicon),
                 AbsString(Parse(u).url, d.img), d.links, 1)
    ELSE NewPage(u, EmptyStr, EmptyStr, d.links, 1)

\* mutant: the page is inserted, whatever the store holds for its URL
upsertPageInserts(st, p) == st \cup {p}

\* the store after col.UpdateOne(ctx, {url: p.URL}, {$set: p}, upsert)
\* succeeded: a record of that URL takes the value of every field of p and
\* keeps the fields that p does not have; without such a record p is inserted
upsertPage(st, p) ==
    LET hit == { r \in st : r.URL = p.URL }
        old == CHOOSE r \in hit : TRUE
    IN  IF hit = {} THEN st \cup {p}
        ELSE (st \ {old})
             \cup { [f \in DOMAIN old \cup DOMAIN p |->
                        IF f \in DOMAIN p THEN p[f] ELSE old[f]] }

\* mutant: the lookup never finds a record
pageExistsNever(st, u) == FALSE

\* pageExists without a store error
pageExists(st, u) == \E r \in st : r.URL = u


\* ---------------------------------------------------------------- state
VARIABLES
    variant,         \* "web_crawler" (src/web_crawler.go) or "part_000"
    MaxPagesPerRun,  \* the page budget of the run
    MaxDepth,        \* the depth budget of the run
    seeds,           \* SEED_URLS, split on commas
    allowedDomains,  \* ALLOWED_DOMAINS, split and trimmed
    queue,           \* crawlSeeds: queue of QueueItem
    visited,         \* crawlSeeds: visited, as the set of its true keys
    pagesCrawled,    \* crawlSeeds: pagesCrawled
    item,            \* crawlSeeds: the item of the current iteration
    exists,          \* crawlSeeds: exists of the current iteration
    err,             \* crawlSeeds: whether the last call returned an error
    page,            \* crawlSeeds: the extracted page
    store,           \* the pages collection
    cancelled,       \* ctx of main is done (deadline passed or cancel called)
    pc,              \* the position of crawlSeeds
    enqueued,        \* history: every item appended to queue, in order
    fetched,         \* history: every fetchPage call and its outcome, in order
    upserted,        \* history: every upsertPage call, in order
    iter,            \* history: the lengths of the histories at the last
                     \* dequeue (f, u, n, q), whether ctx was done by then
                     \* (c), whether pageExists failed since (e), and
                     \* whether time.Sleep ran since the last fetchPage (s)
    arg,             \* the arguments of the function under check
    res              \* the values it returned, in order

vars == << variant, MaxPagesPerRun, MaxDepth, seeds, allowedDomains, queue,
           visited, pagesCrawled, item, exists, err, page, store,
           cancelled, pc, enqueued, fetched, upserted, iter, arg, res >>

\* what no step of crawlSeeds changes
config == << variant, MaxPagesPerRun, MaxDepth, seeds, allowedDomains, arg,
             res >>

QueueItem(u, d) == [URL |-> u, Depth |-> d]

NoItem == QueueItem(EmptyStr, 0)

Snapshot == [f |-> Len(fetched), u |-> Len(upserted), n |-> pagesCrawled,
             q |-> Len(enqueued), e |-> FALSE, c |-> cancelled,
             s |-> iter.s]

Init ==
    /\ variant \in {"web_crawler", "part_000"}
    /\ MaxPagesPerRun \in 1..MaxPagesBound
    /\ MaxDepth \in 0..MaxDepthBound
    /\ seeds \in SeqsUpTo(SeedStrs, MaxSeeds) \ {<<>>}
    /\ allowedDomains \in AllowLists
    /\ queue = <<>>
    /\ visited = {}
    /\ pagesCrawled = 0
    /\ item = NoItem
    /\ exists = FALSE
    /\ err = FALSE
    /\ page = NoPage
    /\ store \in Stores
    /\ cancelled = FALSE
    /\ pc = "start"
    /\ enqueued = <<>>
    /\ fetched = <<>>
    /\ upserted = <<>>
    /\ iter = [f |-> 0, u |-> 0, n |-> 0, q |-> 0, e |-> FALSE, c |-> FALSE,
               s |-> FALSE]
    /\ arg = <<>>
    /\ res = <<>>

\* ------------------------------------------------------------ crawlSeeds
\* the seed loop: every trimmed non-empty entry enters the queue at depth 0
RECURSIVE SeedItems(_)
SeedItems(ss) ==
    IF ss = <<>> THEN <<>>
    ELSE LET s == TrimSpace(Head(ss))
         IN  (IF s # EmptyStr THEN <<QueueItem(s, 0)>> ELSE <<>>)
             \o SeedItems(Tail(ss))

SeedQueue ==
    /\ pc = "start"
    /\ queue' = SeedItems(seeds)
    /\ enqueued' = enqueued \o SeedItems(seeds)
    /\ pc' = "loop"
    /\ UNCHANGED << config, visited, pagesCrawled, item, exists, err, page,
                    store, cancelled, fetched, upserted, iter >>

\* mutant: the loop forgets the page budget
LoopConditionNoBudget == Len(queue) > 0

\* the loop condition
LoopCondition == Len(queue) > 0 /\ pagesCrawled < MaxPagesPerRun

Terminate ==
    /\ pc = "loop"
    /\ ~LoopCondition
    /\ pc' = "done"
    /\ UNCHANGED << config, queue, visited, pagesCrawled, item, exists, err,
                    page, store, cancelled, enqueued, fetched, upserted,
                    iter >>

\* item := queue[0]; queue = queue[1:], with the locals of a new iteration
Dequeue ==
    /\ pc = "loop"
    /\ LoopCondition
    /\ item' = Head(queue)
    /\ queue' = Tail(queue)
    /\ exists' = FALSE
    /\ err' = FALSE
    /\ page' = NoPage
    /\ iter' = Snapshot
    /\ UNCHANGED << config, pagesCrawled, store, cancelled, enqueued, fetched,
                    upserted >>

parsedURL == Parse(item.URL).url

\* mutant: the dequeue-time visited check is missing
alreadyVisitedNever(vis, u) == FALSE

\* visited[item.URL]
alreadyVisited(vis, u) == u \in vis

\* if visited[item.URL] { continue }
SkipVisited ==
    /\ Dequeue
    /\ alreadyVisited(visited, Head(queue).URL)
    /\ pc' = "loop"
    /\ UNCHANGED visited

\* visited[item.URL] = true; url.Parse fails: continue
SkipInvalid ==
    /\ Dequeue
    /\ ~alreadyVisited(visited, Head(queue).URL)
    /\ visited' = visited \cup {Head(queue).URL}
    /\ Parse(Head(queue).URL).err
    /\ pc' = "loop"

\* the domain policy rejects the URL: continue
SkipDomain ==
    /\ Dequeue
    /\ ~alreadyVisited(visited, Head(queue).URL)
    /\ visited' = visited \cup {Head(queue).URL}
    /\ ~Parse(Head(queue).URL).err
    /\ ~isAllowedDomain(Parse(Head(queue).URL).url, allowedDomains)
    /\ pc' = "loop"

\* the URL is new, parses and passes the domain policy
Admit ==
    /\ Dequeue
    /\ ~alreadyVisited(visited, Head(queue).URL)
    /\ visited' = visited \cup {Head(queue).URL}
    /\ ~Parse(Head(queue).URL).err
    /\ isAllowedDomain(Parse(Head(queue).URL).url, allowedDomains)
    /\ pc' = "pageExists"


\* exists, err := pageExists(ctx, col, item.URL): a done ctx or a store
\* failure gives (false, err); otherwise the lookup decides
PageExists ==
    /\ pc = "pageExists"
    /\ \E e \in BOOLEAN :
          /\ cancelled => e
          /\ err' = e
          /\ exists' = (~e /\ pageExists(store, item.URL))
          /\ iter' = [iter EXCEPT !.e = e]
    /\ pc' = "existsCheck"
    /\ UNCHANGED << config, queue, visited, pagesCrawled, item, page, store,
                    cancelled, enqueued, fetched, upserted >>

\* mutant: an indexed URL is crawled again
existsSkipsNever(v, ex, er) == FALSE

\* mutant: an existence-check error abandons the URL
existsSkipsOnError(v, ex, er) == er \/ ex

\* web_crawler.go: if err == nil && exists { continue }
\* part_000:       if err != nil { log }; if exists { continue }
existsSkips(v, ex, er) ==
    IF v = "web_crawler" THEN ~er /\ ex ELSE ex

ExistsSkip ==
    /\ pc = "existsCheck"
    /\ existsSkips(variant, exists, err)
    /\ pc' = "loop"
    /\ UNCHANGED << config, queue, visited, pagesCrawled, item, exists, err,
                    page, store, cancelled, enqueued, fetched, upserted,
                    iter >>

ExistsProceed ==
    /\ pc = "existsCheck"
    /\ ~existsSkips(variant, exists, err)
    /\ pc' = "fetch"
    /\ UNCHANGED << config, queue, visited, pagesCrawled, item, exists, err,
                    page, store, cancelled, enqueued, fetched, upserted,
                    iter >>

\* mutant: a failed fetch is counted as a crawled page
FetchErrorCounted ==
    /\ pc = "fetch"
    /\ iter' = [iter EXCEPT !.s = FALSE]
    /\ fetched' = Append(fetched, [URL |-> item.URL, err |-> TRUE])
    /\ err' = TRUE
    /\ pagesCrawled' = pagesCrawled + 1
    /\ pc' = "loop"
    /\ UNCHANGED << config, queue, visited, item, exists, page, store,
                    cancelled, enqueued, upserted >>

\* err := fetchPage(item.URL) fails (transport error, content type that
\* is not text/html, read or parse error): continue, without the sleep.
\* fetchPage builds its own client and request: ctx plays no part in it.
FetchError ==
    /\ pc = "fetch"
    /\ iter' = [iter EXCEPT !.s = FALSE]
    /\ fetched' = Append(fetched, [URL |-> item.URL, err |-> TRUE])
    /\ err' = TRUE
    /\ pc' = "loop"
    /\ UNCHANGED << config, queue, visited, pagesCrawled, item, exists, page,
                    store, cancelled, enqueued, upserted >>

\* fetchPage returns a document and page := extractPage(item.URL, doc)
FetchExtract ==
    /\ pc = "fetch"
    /\ iter' = [iter EXCEPT !.s = FALSE]
    /\ fetched' = Append(fetched, [URL |-> item.URL, err |-> FALSE])
    /\ err' = FALSE
    /\ \E doc \in Docs :
          /\ ~extractPanics(variant, doc)
          /\ page' = extractPage(variant, item.URL, doc)
    /\ pc' = "upsert"
    /\ UNCHANGED << config, queue, visited, pagesCrawled, item, exists, store,
                    cancelled, enqueued, upserted >>

\* fetchPage returns a document on which extractPage panics (nil pointer
\* dereference): the process dies
FetchPanic ==
    /\ pc = "fetch"
    /\ iter' = [iter EXCEPT !.s = FALSE]
    /\ fetched' = Append(fetched, [URL |-> item.URL, err |-> FALSE])
    /\ err' = FALSE
    /\ \E doc \in Docs : extractPanics(variant, doc)
    /\ pc' = "panic"
    /\ UNCHANGED << config, queue, visited, pagesCrawled, item, exists, page,
                    store, cancelled, enqueued, upserted >>

\* web_crawler.go: upsertPage(ctx, col, page), the result dropped
\* part_000:       if err := upsertPage(ctx, col, page); err != nil { continue }
upsertErrorSkips(v, er) == v = "part_000" /\ er

\* the upsert, and pagesCrawled++ when the iteration goes on
UpsertPage ==
    /\ pc = "upsert"
    /\ \E e \in BOOLEAN :
          /\ cancelled => e
          /\ store' = IF e THEN store ELSE upsertPage(store, page)
          /\ upserted' = Append(upserted, [URL |-> page.URL, err |-> e])
          /\ IF upsertErrorSkips(variant, e)
             THEN /\ err' = TRUE
                  /\ pagesCrawled' = pagesCrawled
                  /\ page' = NoPage
                  /\ pc' = "loop"
             ELSE /\ err' = FALSE
                  /\ pagesCrawled' = pagesCrawled + 1
                  /\ page' = page
                  /\ pc' = "enqueue"
    /\ UNCHANGED << config, queue, visited, item, exists, cancelled,
                    enqueued, fetched, iter >>

\* mutant: the depth test is off by one
depthAllowsOffByOne(d, maxd) == d <= maxd

\* if item.Depth < MaxDepth
depthAllows(d, maxd) == d < maxd

\* mutant: the enqueue-time visited check is missing
linkEnqueuedUnchecked(n, vis) == ~n.err

\* err == nil && !visited[norm.String()]
linkEnqueued(n, vis) == ~n.err /\ String(n.url) \notin vis

\* the items the link loop appends
RECURSIVE LinkItems(_, _, _, _)
LinkItems(links, base, depth, vis) ==
    IF links = <<>> THEN <<>>
    ELSE LET norm == normalizeURL(base, Head(links))
         IN  (IF linkEnqueued(norm, vis)
              THEN <<QueueItem(String(norm.url), depth + 1)>>
              ELSE <<>>)
             \o LinkItems(Tail(links), base, depth, vis)

NewItems ==
    IF depthAllows(item.Depth, MaxDepth)
    THEN LinkItems(page.Links, parsedURL, item.Depth, visited)
    ELSE <<>>

\* mutant: new items enter at the front of the queue
prependItems(q, items) == items \o q

\* queue = append(queue, QueueItem{...}), once per item
appendItems(q, items) == q \o items

\* the link loop; page is not read again
EnqueueLinks ==
    /\ pc = "enqueue"
    /\ queue' = appendItems(queue, NewItems)
    /\ enqueued' = enqueued \o NewItems
    /\ page' = NoPage
    /\ pc' = "sleep"
    /\ UNCHANGED << config, visited, pagesCrawled, item, exists, err, store,
                    cancelled, fetched, upserted, iter >>

\* time.Sleep(PolitenessDelay)
Sleep ==
    /\ pc = "sleep"
    /\ pc' = "loop"
    /\ iter' = [iter EXCEPT !.s = TRUE]
    /\ UNCHANGED << config, queue, visited, pagesCrawled, item, exists, err,
                    page, store, cancelled, enqueued, fetched, upserted >>

\* the deadline of main's context passes (or cancel is called)
Cancel ==
    /\ pc \notin {"start", "done", "panic"}
    /\ ~cancelled
    /\ cancelled' = TRUE
    /\ UNCHANGED << config, queue, visited, pagesCrawled, item, exists, err,
                    page, store, pc, enqueued, fetched, upserted, iter >>

Next ==
    \/ SeedQueue
    \/ Terminate
    \/ SkipVisited
    \/ SkipInvalid
    \/ SkipDomain
    \/ Admit
    \/ PageExists
    \/ ExistsSkip
    \/ ExistsProceed
    \/ FetchError
    \/ FetchExtract
    \/ FetchPanic
    \/ UpsertPage
    \/ EnqueueLinks
    \/ Sleep
    \/ Cancel

Spec == Init /\ [][Next]_vars


\* ---------------------------------------------------------------- claims
\* what the histories say
Dequeued == Len(enqueued) - Len(queue)

OKUpserts == Cardinality({ k \in 1..Len(upserted) : ~upserted[k].err })

TrimmedSeeds == { TrimSpace(seeds[k]) : k \in 1..Len(seeds) }

SuffixAllowed(s) ==
    \E i \in 1..Len(allowedDomains) :
        HasSuffix(Parse(s).url.Host, allowedDomains[i])

\* the current iteration (since the last dequeue) fetched nothing, upserted
\* nothing, counted no page and enqueued nothing
IterationIdle ==
    /\ Len(fetched) = iter.f
    /\ Len(upserted) = iter.u
    /\ pagesCrawled = iter.n
    /\ Len(enqueued) = iter.q

\* C1 (as stated): every URL string is appended to the queue at most once in
\* a run, seeds and link enqueues counted together.
C1_EnqueuedAtMostOnce ==
    \A i, j \in 1..Len(enqueued) :
        i # j => enqueued[i].URL # enqueued[j].URL

\* C1 (amended): the link loop never appends a URL that is already in
\* visited, that is, one that was dequeued before; until its first dequeue a
\* URL can be appended more than once.
C1_EnqueueOnlyUnvisited ==
    [][pc = "enqueue" =>
          \A i \in (Len(enqueued) + 1)..Len(enqueued') :
              enqueued'[i].URL \notin visited]_vars

\* C1 witness: a link was enqueued although the same URL had been enqueued
\* before it, while another page's URL is in visited
C1_Witness ==
    \E i, j \in 1..Len(enqueued) :
        /\ i < j
        /\ enqueued[j].Depth > 0
        /\ enqueued[i].URL = enqueued[j].URL
        /\ visited # {}

\* C2: fetchPage is called at most once for each URL string of a run,
\* whatever the outcome of the call.
C2_FetchedAtMostOnce ==
    \A i, j \in 1..Len(fetched) :
        i # j => fetched[i].URL # fetched[j].URL

\* C2 witness: a URL whose fetch failed was dequeued a second time, and
\* another fetch followed
C2_Witness ==
    \E k \in 1..Len(fetched) :
        /\ fetched[k].err
        /\ k < Len(fetched)
        /\ \E i, j \in 1..Dequeued :
              /\ i < j
              /\ enqueued[i].URL = fetched[k].URL
              /\ enqueued[j].URL = fetched[k].URL

\* C3 (as stated): pagesCrawled <= maxPages and the number of upsert calls of
\* the run never exceeds maxPages.
C3_UpsertCallsBounded ==
    /\ pagesCrawled <= MaxPagesPerRun
    /\ Len(upserted) <= MaxPagesPerRun

\* C3 (amended): pagesCrawled <= maxPages and the number of upserts that
\* returned without error never exceeds maxPages: the upsert that brings it
\* to maxPages is the last call of the run, no fetch follows it, and a run
\* that stops with items left in the queue has counted maxPages pages.
C3_PagesBounded ==
    /\ pagesCrawled <= MaxPagesPerRun
    /\ OKUpserts <= MaxPagesPerRun
    /\ OKUpserts = MaxPagesPerRun =>
          /\ ~upserted[Len(upserted)].err
          /\ Len(upserted) = iter.u + 1
          /\ Len(fetched) = iter.f + 1
          /\ pc \in {"enqueue", "sleep", "loop", "done"}
    /\ (pc = "done" /\ Len(queue) > 0) => pagesCrawled = MaxPagesPerRun

\* C3 witness: maxPages = 1, the run is over after exactly one successful
\* upsert, and a second page is still waiting in the queue
C3_Witness ==
    /\ MaxPagesPerRun = 1
    /\ pc = "done"
    /\ OKUpserts = 1
    /\ \E i \in 1..Len(queue) : queue[i].URL \notin visited

\* C4: every item ever put in the queue has 0 <= Depth <= maxDepth; seeds
\* enter at depth 0; the link loop enqueues only when the parent's depth is
\* below maxDepth, and at the parent's depth + 1; with maxDepth = 0 nothing
\* but the seeds is enqueued or fetched.
C4_DepthState ==
    /\ \A i \in 1..Len(enqueued) : enqueued[i].Depth \in 0..MaxDepth
    /\ pc # "start" =>
          \A s \in TrimmedSeeds \ {EmptyStr} :
              \E i \in 1..Len(enqueued) :
                  enqueued[i] = [URL |-> s, Depth |-> 0]
    /\ MaxDepth = 0 =>
          /\ \A i \in 1..Len(enqueued) : enqueued[i].URL \in TrimmedSeeds
          /\ Len(enqueued) <= Len(seeds)
          /\ \A k \in 1..Len(fetched) : fetched[k].URL \in TrimmedSeeds

C4_DepthStep ==
    pc = "enqueue" =>
        \A i \in (Len(enqueued) + 1)..Len(enqueued') :
            /\ item.Depth < MaxDepth
            /\ enqueued'[i].Depth = item.Depth + 1

\* C4: the depth bound holds in every state and every link enqueue keeps it
C4_DepthBound == []C4_DepthState /\ [][C4_DepthStep]_vars

\* C4 witness: with maxDepth = 0 a page whose links normalize was stored and
\* its iteration went past the link loop with nothing but the seeds enqueued
C4_Witness ==
    /\ MaxDepth = 0
    /\ pc = "sleep"
    /\ \E r \in store :
          /\ r.URL = item.URL
          /\ r.CrawlTime = 1
          /\ \E k \in 1..Len(r.Links) :
                ~normalizeURL(Parse(r.URL).url, r.Links[k]).err

\* C5: an iteration whose existence check returned true (without error)
\* fetches nothing, upserts nothing, leaves pagesCrawled alone and enqueues
\* no child.
C5_ExistingSkipped == (exists /\ ~iter.e) => IterationIdle

\* C5 witness: the iteration of an indexed URL is over, after an earlier
\* iteration of the run fetched a page
C5_Witness ==
    /\ exists
    /\ pc = "loop"
    /\ pageExists(store, item.URL)
    /\ Len(fetched) > 0

\* C6: with a non-empty allow-list only URLs whose hostname ends with an
\* entry of the list are fetched or upserted, and the iteration of a rejected
\* URL enqueues nothing; with an empty allow-list every URL is allowed.
C6_DomainPolicy ==
    /\ allowedDomains # <<>> =>
          /\ \A k \in 1..Len(fetched) : SuffixAllowed(fetched[k].URL)
          /\ \A k \in 1..Len(upserted) : SuffixAllowed(upserted[k].URL)
          /\ (/\ pc \notin {"start"}
              /\ item # NoItem
              /\ ~ParseFails(item.URL)
              /\ ~SuffixAllowed(item.URL)) => IterationIdle
    /\ allowedDomains = <<>> =>
          \A h \in {HostA, HostB, DomainA, NoHost} :
              isAllowedDomain([NoURL EXCEPT !.Host = h], allowedDomains)

\* C6 witness: a child on a host outside the allow-list was dequeued and
\* rejected, after its parent, on a subdomain of the entry, was fetched
C6_Witness ==
    /\ allowedDomains = <<DomainA>>
    /\ pc = "loop"
    /\ item.Depth = 1
    /\ Parse(item.URL).url.Host = HostB
    /\ \E k \in 1..Len(fetched) : Parse(fetched[k].URL).url.Host = HostA

\* C7: when the upsert of a page returns an error, pagesCrawled is not
\* incremented for it and none of its links is enqueued, so pagesCrawled
\* equals the number of successful upserts.
C7_UpsertErrorDiscards ==
    /\ pagesCrawled = OKUpserts
    /\ (Len(upserted) > iter.u /\ upserted[Len(upserted)].err) =>
          /\ pagesCrawled = iter.n
          /\ Len(enqueued) = iter.q

\* C8 (as stated): when the existence check of a dequeued URL returns an
\* error, the URL is not fetched, not upserted and none of its children is
\* enqueued.
C8_ExistsErrorAbandons ==
    iter.e =>
        /\ Len(fetched) = iter.f
        /\ Len(upserted) = iter.u
        /\ Len(enqueued) = iter.q

\* C8 (amended): when the existence check of a dequeued URL returns an
\* error, the URL is handled as not indexed: the iteration goes on to fetch
\* it.
C8_ExistsErrorFetches ==
    iter.e =>
        \/ pc \in {"existsCheck", "fetch"} /\ Len(fetched) = iter.f
        \/ /\ Len(fetched) = iter.f + 1
           /\ fetched[Len(fetched)].URL = item.URL

\* C8 witness: after a failed existence check the URL was fetched and
\* upserted and a child of it was enqueued
C8_Witness ==
    /\ iter.e
    /\ Len(fetched) = iter.f + 1
    /\ Len(upserted) > iter.u
    /\ Len(enqueued) > iter.q

\* C9: extractPage returns a page for every fetched document, and the run
\* goes on: no document content ends the run abnormally.
C9_ExtractNeverFails == pc # "panic"

\* C10: once the deadline has passed or cancellation was requested, the loop
\* starts no further fetch and processes no further item: an iteration that
\* begins when ctx is already done fetches nothing.
C10_CancelStopsTheLoop == iter.c => Len(fetched) = iter.f

\* C11: between any two successive fetchPage calls of a run the politeness
\* delay elapses: a fetch that is not the first of the run starts only after
\* time.Sleep ran since the previous fetch.
C11_DelayBetweenFetches ==
    [][(Len(fetched') > Len(fetched) /\ Len(fetched) > 0) => iter.s]_vars

\* a canonical URL string: absolute, scheme http or https, no fragment, no
\* surrounding white space
Canonical(s) ==
    /\ ~s.pad
    /\ s.scheme \in {"http", "https"}
    /\ s.host # NoHost
    /\ s.frag = ""

\* C12: every page handed to upsertPage by a run has a canonical URL key,
\* whether its item was a seed or a normalized link.
C12_CanonicalKeys ==
    \A k \in 1..Len(upserted) : Canonical(upserted[k].URL)

\* C18: the queue is strictly FIFO. It is always the part of the enqueue order
\* that was not dequeued yet, and the item of the current iteration is the
\* last one dequeued in that order; so depths never decrease along the
\* enqueue order, and no item waiting in the queue is shallower than the item
\* being processed.
C18_FIFO ==
    /\ queue = SubSeq(enqueued, Dequeued + 1, Len(enqueued))
    /\ Dequeued > 0 => item = enqueued[Dequeued]
    /\ \A i, j \in 1..Len(enqueued) :
          i <= j => enqueued[i].Depth <= enqueued[j].Depth
    /\ Dequeued > 0 => \A k \in 1..Len(queue) : item.Depth <= queue[k].Depth

\* C18 witness: a child of the first seed is being fetched after both seeds
\* were dequeued, with another child still waiting
C18_Witness ==
    /\ pc = "fetch"
    /\ Dequeued = 3
    /\ item.Depth = 1
    /\ Len(queue) > 0
    /\ enqueued[1].Depth = 0 /\ enqueued[2].Depth = 0

\* the fetch of the current iteration failed
FailedFetch ==
    /\ Len(fetched) = iter.f + 1
    /\ fetched[Len(fetched)].err

\* C19 (state): once the fetch of an iteration failed, the run is back at the
\* loop condition (or past it), nothing was upserted, counted or enqueued
\* since the dequeue, the item's URL is in visited, and the queue is what
\* followed the item in the enqueue order.
C19_FailedFetchState ==
    FailedFetch =>
        /\ pc \in {"loop", "done"}
        /\ Len(upserted) = iter.u
        /\ pagesCrawled = iter.n
        /\ Len(enqueued) = iter.q
        /\ item.URL \in visited
        /\ item = enqueued[iter.q - Len(queue)]
        /\ queue = SubSeq(enqueued, iter.q - Len(queue) + 1, iter.q)

\* C19 (step): the store changes only in a step that calls upsertPage, and
\* visited only grows, by the URL of the item that a step dequeues.
C19_FrameStep ==
    /\ upserted' = upserted => store' = store
    /\ visited' # visited =>
          /\ queue' = Tail(queue)
          /\ item' = Head(queue)
          /\ visited' = visited \cup {item'.URL}

\* C19: an iteration whose fetch fails changes nothing but the head of the
\* queue and visited: store, pagesCrawled and the rest of the queue are as
\* they were, no child is enqueued, and the loop goes on to its next item.
C19_FailedFetchFrame == []C19_FailedFetchState /\ [][C19_FrameStep]_vars

\* C19 witness: a fetch failed after an earlier iteration crawled a page, and
\* the loop is about to take the next item
C19_Witness ==
    /\ FailedFetch
    /\ pc = "loop"
    /\ LoopCondition
    /\ pagesCrawled > 0
    /\ store # {}

\* the run is over: crawlSeeds returned, or the process died in a panic
Terminated == pc \in {"done", "panic"}

\* C17: in the state in which a run ends, the queue is empty or the page
\* budget is used up.
C17_TerminalState ==
    Terminated => (queue = <<>> \/ pagesCrawled >= MaxPagesPerRun)


\* ------------------------------------------------- the functions, called
\* The helpers are also checked on their own: a specification draws the
\* arguments of one function in Init (arg), and its action calls the function
\* and keeps what it returned (res). crawlSeeds does not run meanwhile.
idle == << variant, MaxPagesPerRun, MaxDepth, seeds, allowedDomains, queue,
           visited, pagesCrawled, item, exists, err, cancelled, enqueued,
           fetched, upserted, iter >>

Idle ==
    /\ MaxPagesPerRun = 1
    /\ MaxDepth = 0
    /\ seeds = <<>>
    /\ allowedDomains = <<>>
    /\ queue = <<>>
    /\ visited = {}
    /\ pagesCrawled = 0
    /\ item = NoItem
    /\ exists = FALSE
    /\ err = FALSE
    /\ cancelled = FALSE
    /\ enqueued = <<>>
    /\ fetched = <<>>
    /\ upserted = <<>>
    /\ iter = [f |-> 0, u |-> 0, n |-> 0, q |-> 0, e |-> FALSE, c |-> FALSE,
               s |-> FALSE]

\* ----------------------------------------------------------- normalizeURL
\* the URLs of fetched pages, as crawlSeeds parses them: the base of a call
BaseURLs ==
    { Parse(Str(FALSE, "http", HostA, "/p", "")).url,
      Parse(Str(FALSE, "http", HostA, "/p", "f")).url,
      Parse(Str(FALSE, "https", HostB, "/", "")).url }

\* href values: padded or not, absolute, network-path, relative, empty,
\* fragment-only, with an invalid escape in the path or in the fragment
AllHrefs ==
    [ pad : BOOLEAN,
      scheme : {"", "http", "https", "mailto"},
      host : {NoHost, HostA, HostB},
      path : {"", "/p", "x", BadPath},
      frag : {"", "f", BadPath} ]

\* fragments of the second href of a call
Frags == {"", "f", "g"}

InitNormalize ==
    /\ Idle
    /\ variant \in {"web_crawler", "part_000"}
    /\ store = {}
    /\ page = NoPage
    /\ pc = "call"
    /\ arg \in [base : BaseURLs, href : AllHrefs, frag : Frags]
    /\ res = <<>>

\* norm, err := normalizeURL(parsedURL, href), for the href and for the href
\* that differs from it in the fragment only
CallNormalize ==
    /\ pc = "call"
    /\ res' = << normalizeURL(arg.base, arg.href),
                 normalizeURL(arg.base, [arg.href EXCEPT !.frag = arg.frag]) >>
    /\ pc' = "return"
    /\ UNCHANGED << idle, store, page, arg >>

NextNormalize == CallNormalize

SpecNormalize == InitNormalize /\ [][NextNormalize]_vars

\* the href is one the claim says normalizeURL rejects: empty once trimmed,
\* not parsable, or of a scheme (its own, or the base's when it has none)
\* other than http and https
Rejected(base, href) ==
    LET h == TrimSpace(href)
    IN  \/ h = EmptyStr
        \/ h.path = BadPath \/ h.frag = BadPath
        \/ (IF h.scheme # "" THEN h.scheme ELSE base.Scheme)
               \notin {"http", "https"}

\* C16: normalizeURL returns an error exactly for the hrefs that are empty
\* once trimmed, unparsable or of another scheme than http(s); otherwise it
\* returns an absolute http(s) URL with an empty fragment, and two hrefs that
\* differ only in the fragment and both normalize give the same URL string.
C16_NormalizeURL ==
    pc = "return" =>
        /\ res[1].err <=> Rejected(arg.base, arg.href)
        /\ ~res[1].err =>
              /\ res[1].url.Scheme \in {"http", "https"}
              /\ res[1].url.Fragment = ""
              /\ String(res[1].url).frag = ""
        /\ (~res[1].err /\ ~res[2].err) =>
              String(res[1].url) = String(res[2].url)

\* C16 witness: a padded relative href with a fragment and the same href with
\* another fragment were both normalized, against a base that has a fragment
C16_Witness ==
    /\ pc = "return"
    /\ arg.href.pad /\ arg.href.scheme = "" /\ arg.href.host = NoHost
    /\ arg.href.frag = "f" /\ arg.frag = "g"
    /\ arg.base.Fragment = "f"
    /\ ~res[1].err /\ ~res[2].err


\* ------------------------------------------------------------------ text
\* A string that is read as text (a title, a description, a paragraph, the
\* body, an attribute value) is kept as its runs of bytes of one kind, in
\* order, adjacent runs being of different kinds:
\*   "sp"  ASCII white space             1 byte, 1 character each
\*   "a"   other ASCII characters        1 byte, 1 character each
\*   "m"   two-byte characters           2 bytes, 1 character each
\*   "r"   U+FFFD, the replacement rune  3 bytes, 1 character each
\*   "x"   bytes that are not valid UTF-8; a conversion to []rune reads each
\*         of them as one U+FFFD
Seg(k, n) == [k |-> k, n |-> n]

EmptyText == <<>>

Width(k) == CASE k = "m" -> 2 [] k = "r" -> 3 [] OTHER -> 1

\* s + t
Join(s, t) ==
    IF s = <<>> THEN t
    ELSE IF t = <<>> THEN s
    ELSE IF s[Len(s)].k = t[1].k
         THEN SubSeq(s, 1, Len(s) - 1)
              \o << Seg(t[1].k, s[Len(s)].n + t[1].n) >>
              \o Tail(t)
    ELSE s \o t

\* len(s): bytes
RECURSIVE ByteLen(_)
ByteLen(s) ==
    IF s = <<>> THEN 0 ELSE Head(s).n * Width(Head(s).k) + ByteLen(Tail(s))

\* len([]rune(s)): characters, an invalid byte counting as one
RECURSIVE RuneCount(_)
RuneCount(s) == IF s = <<>> THEN 0 ELSE Head(s).n + RuneCount(Tail(s))

\* string([]rune(s)): every invalid byte becomes U+FFFD
RECURSIVE Runes(_)
Runes(s) ==
    IF s = <<>> THEN <<>>
    ELSE Join(<< Seg(IF Head(s).k = "x" THEN "r" ELSE Head(s).k, Head(s).n) >>,
              Runes(Tail(s)))

\* string(runes[:n]) of a string without invalid bytes
RECURSIVE Take(_, _)
Take(s, n) ==
    IF s = <<>> \/ n = 0 THEN <<>>
    ELSE IF Head(s).n >= n THEN << Seg(Head(s).k, n) >>
    ELSE << Head(s) >> \o Take(Tail(s), n - Head(s).n)

\* runes := []rune(s); if len(runes) > n { s = string(runes[:n]) }
Truncate(s, n) == IF RuneCount(s) > n THEN Take(Runes(s), n) ELSE s

\* strings.TrimSpace on text
TrimText(s) ==
    LET a == IF s # <<>> /\ Head(s).k = "sp" THEN Tail(s) ELSE s
    IN  IF a # <<>> /\ a[Len(a)].k = "sp" THEN SubSeq(a, 1, Len(a) - 1) ELSE a

\* strings.ToValidUTF8(s, ""): the invalid bytes are dropped
RECURSIVE safeUTF8(_)
safeUTF8(s) ==
    IF s = <<>> THEN <<>>
    ELSE IF Head(s).k = "x" THEN safeUTF8(Tail(s))
    ELSE Join(<< Head(s) >>, safeUTF8(Tail(s)))

\* utf8.ValidString
ValidText(s) == \A i \in 1..Len(s) : s[i].k # "x"

\* ------------------------------------------------------------- upsertPage
\* the Page struct of either program, its strings as text
TextPage(v, u, title, snippet, site, text, links, t) ==
    IF v = "web_crawler"
    THEN [URL |-> u, Title |-> title, Snippet |-> snippet,
          Favicon |-> EmptyText, SiteName |-> site, Image |-> EmptyText,
          Text |-> text, Links |-> links, CrawlTime |-> t]
    ELSE [URL |-> u, Title |-> title, Text |-> text, Links |-> links,
          CrawlTime |-> t]

\* the head of upsertPage: web_crawler.go passes seven fields through
\* safeUTF8 (Links and CrawlTime are not among them), part_000 none
sanitize(v, p) ==
    IF v = "web_crawler"
    THEN [p EXCEPT !.URL = safeUTF8(@), !.Title = safeUTF8(@),
                   !.Snippet = safeUTF8(@), !.Favicon = safeUTF8(@),
                   !.SiteName = safeUTF8(@), !.Image = safeUTF8(@),
                   !.Text = safeUTF8(@)]
    ELSE p

\* every string of a page is valid UTF-8
ValidPage(p) ==
    /\ \A f \in DOMAIN p \ {"Links", "CrawlTime"} : ValidText(p[f])
    /\ \A i \in 1..Len(p.Links) : ValidText(p.Links[i])

URL1 == << Seg("a", 14) >>
URL2 == << Seg("a", 16) >>
PlainTitle == << Seg("a", 5) >>
BrokenTitle == << Seg("a", 2), Seg("x", 1), Seg("a", 3) >>

\* pages handed to upsertPage
UpsertPages(v) ==
    { TextPage(v, u, ti, ti, PlainTitle, tx, ls, t) :
        u \in {URL1, URL2}, ti \in {PlainTitle, BrokenTitle},
        tx \in {EmptyText, << Seg("a", 50) >>}, ls \in {<<>>, << URL2 >>},
        t \in {1, 2} }

\* the collection before the calls: empty, or with a record of URL1 that a
\* run of one of the two programs left
UpsertStores ==
    { {},
      { TextPage("web_crawler", URL1, PlainTitle, PlainTitle, PlainTitle,
                 << Seg("a", 9) >>, <<>>, 0) },
      { TextPage("part_000", URL1, PlainTitle, PlainTitle, PlainTitle,
                 << Seg("a", 9) >>, <<>>, 0) } }

MaxUpserts == 2

InitUpsert ==
    /\ Idle
    /\ variant \in {"web_crawler", "part_000"}
    /\ store \in UpsertStores
    /\ page = NoPage
    /\ pc = "call"
    /\ arg = <<>>
    /\ res = << store >>

\* upsertPage(ctx, col, p) returns nil; arg keeps the pages and res the
\* collection before the first call and after each call
CallUpsert ==
    /\ pc = "call"
    /\ Len(arg) < MaxUpserts
    /\ \E p \in UpsertPages(variant) :
          /\ store' = upsertPage(store, sanitize(variant, p))
          /\ arg' = Append(arg, p)
          /\ res' = Append(res, store')
    /\ UNCHANGED << idle, page, pc >>

NextUpsert == CallUpsert

SpecUpsert == InitUpsert /\ [][NextUpsert]_vars

\* C13: upsertPage replaces by URL. After page A and then page B of the same
\* URL were upserted, the store holds exactly one record of that URL; the
\* record has the value of B in every field of a page (as upsertPage writes
\* B, and that is B itself when the strings of B are valid), so that no field
\* value of A is left; the records of other URLs are as before the calls;
\* and when B is A, the second call leaves the store as the first left it.
C13_FullReplace ==
    (Len(arg) = 2 /\ arg[1].URL = arg[2].URL) =>
        LET B == arg[2]
            written == sanitize(variant, B)
            hit == { r \in store : r.URL = written.URL }
        IN  /\ Cardinality(hit) = 1
            /\ \A r \in hit : \A f \in DOMAIN B :
                  /\ r[f] = written[f]
                  /\ ValidPage(B) => r[f] = B[f]
            /\ store \ hit = { r \in res[1] : r.URL # written.URL }
            /\ arg[1] = B => store = res[2]

\* C13 witness: a page was upserted over a page of the same URL that differs
\* from it in title, text, links and crawl time, in a collection that held a
\* record of the URL before
C13_Witness ==
    /\ Len(arg) = 2
    /\ arg[1].URL = URL1 /\ arg[2].URL = URL1
    /\ arg[1].Title # arg[2].Title
    /\ arg[1].Text # arg[2].Text
    /\ arg[1].Links # arg[2].Links
    /\ arg[1].CrawlTime # arg[2].CrawlTime
    /\ ValidPage(arg[2])
    /\ res[1] # {}


\* ------------------------------------------------- extractPage, as text
MaxTextChars == 70000      \* the const of both programs
MinParagraphLen == 40      \* len(txt) > 40
MaxSnippetChars == 300     \* len(runes) > 300, runes[:300]

\* the value of an attribute of the first match of a selector, as goquery's
\* Attr returns it: (v, ok)
Absent == [ok |-> FALSE, v |-> EmptyText]
Present(t) == [ok |-> TRUE, v |-> t]

\* parsedURL.Hostname() of the page URL, as text
HostText == << Seg("a", 5) >>

\* What a fetch can return, as text: the text of the first <title>, the
\* content of the description and og:description metas, the text of each <p>
\* in document order, the text of <body>, the content of the og:site_name
\* meta, and the a[href] values. No text holds U+FFFD itself.
TextDocs ==
    [ title : { PlainTitle,
                << Seg("sp", 1), Seg("a", 2), Seg("x", 1), Seg("a", 3),
                   Seg("sp", 1) >> },
      desc : { Absent, Present(<< Seg("sp", 2) >>), Present(<< Seg("a", 20) >>) },
      og : { Absent, Present(<< Seg("sp", 1), Seg("a", 12) >>) },
      ps : { <<>>,
             << << Seg("a", 30) >>,
                << Seg("sp", 1), Seg("a", 50), Seg("sp", 1) >> >>,
             << << Seg("m", 21) >> >>,
             << << Seg("m", 41) >> >> },
      body : { << Seg("a", 10) >>,
               << Seg("a", 400) >>,
               << Seg("a", 100), Seg("x", 1), Seg("a", 300) >>,
               << Seg("x", 2), Seg("a", MaxTextChars) >>,
               << Seg("a", MaxTextChars + 1) >> },
      site : { Absent, Present(<< Seg("sp", 1) >>), Present(<< Seg("a", 4) >>) },
      hrefs : { <<>>, << << Seg("a", 3), Seg("x", 1) >> >> } ]

\* step 3 of the snippet: the first <p> whose trimmed text has more than 40
\* bytes
RECURSIVE firstParagraph(_)
firstParagraph(ps) ==
    IF ps = <<>> THEN EmptyText
    ELSE IF ByteLen(TrimText(Head(ps))) > MinParagraphLen
         THEN TrimText(Head(ps))
    ELSE firstParagraph(Tail(ps))

\* the snippet of extractPage (web_crawler.go)
snippetOf(d) ==
    LET s1 == IF d.desc.ok THEN TrimText(d.desc.v) ELSE EmptyText
        s2 == IF s1 = EmptyText /\ d.og.ok THEN TrimText(d.og.v) ELSE s1
        s3 == IF s2 = EmptyText THEN firstParagraph(d.ps) ELSE s2
    IN  IF s3 = EmptyText
        THEN Truncate(TrimText(d.body), MaxSnippetChars)
        ELSE s3

\* the site name of extractPage (web_crawler.go)
siteNameOf(d) ==
    IF d.site.ok /\ TrimText(d.site.v) # EmptyText THEN d.site.v ELSE HostText

\* the text fields of extractPage(u, doc), of a document without icon and
\* image; part_000 keeps the hrefs as they are
extractText(v, u, d) ==
    TextPage(v, u,
             TrimText(d.title),
             snippetOf(d),
             siteNameOf(d),
             Truncate(TrimText(d.body), MaxTextChars),
             IF v = "web_crawler"
             THEN [i \in 1..Len(d.hrefs) |-> safeUTF8(d.hrefs[i])]
             ELSE d.hrefs,
             1)

InitExtract ==
    /\ Idle
    /\ variant \in {"web_crawler", "part_000"}
    /\ store = {}
    /\ page = NoPage
    /\ pc = "call"
    /\ arg \in [u : {URL1}, doc : TextDocs]
    /\ res = <<>>

\* page := extractPage(item.URL, doc)
CallExtract ==
    /\ pc = "call"
    /\ page' = extractText(variant, arg.u, arg.doc)
    /\ pc' = "extracted"
    /\ UNCHANGED << idle, store, arg, res >>

\* upsertPage(ctx, col, page) returns nil
CallStore ==
    /\ pc = "extracted"
    /\ store' = upsertPage(store, sanitize(variant, page))
    /\ pc' = "stored"
    /\ UNCHANGED << idle, page, arg, res >>

NextExtract == CallExtract \/ CallStore

SpecExtract == InitExtract /\ [][NextExtract]_vars

\* C14: every string field of every record written to the store, each entry
\* of links included, is valid UTF-8, whatever bytes the document held.
C14_StoredTextValid == \A r \in store : ValidPage(r)

\* the text holds no U+FFFD
NoPlaceholder(t) == \A i \in 1..Len(t) : t[i].k # "r"

\* t is the source with its invalid bytes deleted, or the first characters of
\* that when the source is longer than n characters
DeletedOnly(t, source, n) ==
    /\ NoPlaceholder(t)
    /\ t = Take(safeUTF8(source), RuneCount(t))
    /\ RuneCount(source) <= n => t = safeUTF8(source)

\* C15: in a record stored by web_crawler.go, the invalid bytes of the source
\* value are deleted and no placeholder character stands for them: the title
\* is the trimmed <title> text without its invalid bytes, and the text and the
\* snippet, truncated or not, are (the first characters of) their source
\* without its invalid bytes.
C15_InvalidBytesDeleted ==
    (pc = "stored" /\ variant = "web_crawler") =>
        \A r \in store :
            /\ r.Title = safeUTF8(TrimText(arg.doc.title))
            /\ DeletedOnly(r.Text, TrimText(arg.doc.body), MaxTextChars)
            /\ NoPlaceholder(r.Snippet)
            /\ \A i \in 1..Len(r.Links) : NoPlaceholder(r.Links[i])

\* the candidates of the snippet in the order of the claim, the paragraphs
\* measured in characters
RECURSIVE LongParagraph(_)
LongParagraph(ps) ==
    IF ps = <<>> THEN EmptyText
    ELSE IF RuneCount(TrimText(Head(ps))) > MinParagraphLen
         THEN TrimText(Head(ps))
    ELSE LongParagraph(Tail(ps))

Candidates(d) ==
    << IF d.desc.ok THEN TrimText(d.desc.v) ELSE EmptyText,
       IF d.og.ok THEN TrimText(d.og.v) ELSE EmptyText,
       LongParagraph(d.ps),
       Truncate(TrimText(d.body), MaxSnippetChars) >>

\* C20: the extracted Snippet is the first non-empty candidate in the order
\* meta description, og:description, first <p> longer than 40 characters,
\* first 300 characters of the body text; nothing but empty candidates comes
\* before the one that is used.
C20_SnippetOrder ==
    (pc = "extracted" /\ variant = "web_crawler") =>
        LET c == Candidates(arg.doc)
        IN  \E k \in 1..4 :
              /\ page.Snippet = c[k]
              /\ \A j \in 1..(k - 1) : c[j] = EmptyText
              /\ k < 4 => c[k] # EmptyText

\* a record that was in the store when the run started: its crawl time is
\* before the run (extractPage stamps the pages of the run with a later one)
AtStart(r) == r.CrawlTime = OldPage.CrawlTime

====
